---- MODULE Spec2Model ----
(***************************************************************************)
(* The IHEX writer (src/writer.rs): Record::to_string, format_record and   *)
(* create_object_file_representation.                                      *)
(*                                                                         *)
(* A Rust String is modelled as the sequence of its characters (each a     *)
(* one-character string), a Vec<u8> / &[u8] as a sequence of 0..255, a u16 *)
(* as 0..65535.  TLC's integers are 32-bit signed, so the u32 of           *)
(* StartLinearAddress is kept as its two 16-bit halves, hi and lo, the     *)
(* value being hi * 65536 + lo.                                            *)
(***************************************************************************)
EXTENDS Integers, Sequences, FiniteSets, TLC

VARIABLES
    records,    \* the `records` argument of create_object_file_representation
    pc,         \* where the call stands: "start", "count", "encode", "done"; "record" during a direct Record::to_string call
    idx,        \* the 0-based position of the iterator feeding collect()
    lines,      \* the Vec<String> that collect() has gathered so far
    result,     \* the value the call returned
    ncalls,     \* how many times the call has invoked Record::to_string
    rec,        \* the receiver of a direct Record::to_string call
    out         \* what that call returned

vars == <<records, pc, idx, lines, result, ncalls, rec, out>>

-----------------------------------------------------------------------------
(* Bounds of the model.                                                    *)

\* The longest record sequence handed to create_object_file_representation.
MaxRecords == 4

\* Data payloads run from 0 to 255 + MaxOver bytes.
MaxOver == 2

-----------------------------------------------------------------------------
(* u8 / u16 arithmetic.                                                    *)

RECURSIVE BitAnd(_, _)
\* a & b on non-negative integers.
BitAnd(a, b) ==
    IF a = 0 \/ b = 0 THEN 0
    ELSE (a % 2) * (b % 2) + 2 * BitAnd(a \div 2, b \div 2)

RECURSIVE Pow2(_)
Pow2(n) == IF n = 0 THEN 1 ELSE 2 * Pow2(n - 1)

\* a >> n
Shr(a, n) == a \div Pow2(n)

\* x as u8
AsU8(x) == x % 256

-----------------------------------------------------------------------------
(* record.rs: the Record type and its type codes.                          *)

Data(offset, value) == [type |-> "Data", offset |-> offset, value |-> value]
EndOfFile == [type |-> "EndOfFile"]
ExtendedSegmentAddress(address) ==
    [type |-> "ExtendedSegmentAddress", address |-> address]
StartSegmentAddress(cs, ip) ==
    [type |-> "StartSegmentAddress", cs |-> cs, ip |-> ip]
ExtendedLinearAddress(address) ==
    [type |-> "ExtendedLinearAddress", address |-> address]
\* address = hi * 65536 + lo
StartLinearAddress(hi, lo) ==
    [type |-> "StartLinearAddress", hi |-> hi, lo |-> lo]

\* Record::record_type
record_type(r) ==
    CASE r.type = "Data"                   -> \h00
      [] r.type = "EndOfFile"              -> \h01
      [] r.type = "ExtendedSegmentAddress" -> \h02
      [] r.type = "StartSegmentAddress"    -> \h03
      [] r.type = "ExtendedLinearAddress"  -> \h04
      [] r.type = "StartLinearAddress"     -> \h05

-----------------------------------------------------------------------------
(* checksum.rs                                                             *)

RECURSIVE SumBytes(_, _, _)
\* bytes[lo] + ... + bytes[hi], summed by halves to keep the evaluation shallow.
SumBytes(bytes, lo, hi) ==
    IF lo > hi THEN 0
    ELSE IF lo = hi THEN bytes[lo]
    ELSE LET mid == (lo + hi) \div 2
         IN  SumBytes(bytes, lo, mid) + SumBytes(bytes, mid + 1, hi)

\* checksum::checksum
checksum(bytes) ==
    (\h100 - (SumBytes(bytes, 1, Len(bytes)) % \h100)) % \h100

-----------------------------------------------------------------------------
(* writer.rs: WriterError and Result<String, WriterError>.                 *)

DataExceedsMaximumLength(n) == [tag |-> "DataExceedsMaximumLength", n |-> n]
MissingEndOfFileRecord == [tag |-> "MissingEndOfFileRecord"]
MultipleEndOfFileRecords(n) == [tag |-> "MultipleEndOfFileRecords", n |-> n]

Ok(s) == [tag |-> "Ok", text |-> s]
Err(e) == e
IsOk(r) == r.tag = "Ok"

\* No call has returned yet.
NoResult == [tag |-> "None"]

-----------------------------------------------------------------------------
(* writer.rs: format_record.                                               *)

HexDigits ==
    <<"0", "1", "2", "3", "4", "5", "6", "7",
      "8", "9", "A", "B", "C", "D", "E", "F">>

\* FormatByte without the zero padding: format!("{:X}", byte).
FormatByteUnpadded(byte) ==
    IF byte < 16 THEN <<HexDigits[byte + 1]>>
    ELSE <<HexDigits[(byte \div 16) + 1], HexDigits[(byte % 16) + 1]>>

\* format!("{:02X}", byte)
FormatByte(byte) == <<HexDigits[(byte \div 16) + 1], HexDigits[(byte % 16) + 1]>>

RECURSIVE FoldBytes(_, _, _)
\* data_region.iter().map(format).fold(.., push_str) over data_region[lo..hi]:
\* the bytes' strings concatenated in order (by halves, to keep the
\* evaluation shallow).
FoldBytes(data_region, lo, hi) ==
    IF lo > hi THEN <<>>
    ELSE IF lo = hi THEN FormatByte(data_region[lo])
    ELSE LET mid == (lo + hi) \div 2
         IN  FoldBytes(data_region, lo, mid) \o FoldBytes(data_region, mid + 1, hi)

\* format_record with the length check off by one: data.len() >= 0xFF.
format_record_off_by_one(rtype, address, data) ==
    IF Len(data) >= \hFF
    THEN Err(DataExceedsMaximumLength(Len(data)))
    ELSE LET head == << AsU8(Len(data)),
                        AsU8(Shr(BitAnd(address, \hFF00), 8)),
                        AsU8(Shr(BitAnd(address, \h00FF), 0)),
                        rtype >> \o data
             data_region == Append(head, checksum(head))
         IN  Ok(<<":">> \o FoldBytes(data_region, 1, Len(data_region)))

\* format_record with the checksum taken over `data` alone, not over the
\* data region built so far.
format_record_checksum_of_data(rtype, address, data) ==
    IF Len(data) > \hFF
    THEN Err(DataExceedsMaximumLength(Len(data)))
    ELSE LET head == << AsU8(Len(data)),
                        AsU8(Shr(BitAnd(address, \hFF00), 8)),
                        AsU8(Shr(BitAnd(address, \h00FF), 0)),
                        rtype >> \o data
             data_region == Append(head, checksum(data))
         IN  Ok(<<":">> \o FoldBytes(data_region, 1, Len(data_region)))

format_record(rtype, address, data) ==
    IF Len(data) > \hFF
    THEN Err(DataExceedsMaximumLength(Len(data)))
    ELSE LET head == << AsU8(Len(data)),
                        AsU8(Shr(BitAnd(address, \hFF00), 8)),
                        AsU8(Shr(BitAnd(address, \h00FF), 0)),
                        rtype >> \o data
             data_region == Append(head, checksum(head))
         IN  Ok(<<":">> \o FoldBytes(data_region, 1, Len(data_region)))

-----------------------------------------------------------------------------
(* writer.rs: Record::to_string.                                           *)

\* The two big-endian bytes of a 16-bit value.
Bytes16(v) ==
    << AsU8(Shr(BitAnd(v, \hFF00), 8)), AsU8(Shr(BitAnd(v, \h00FF), 0)) >>

\* Record::to_string with a Data record's offset left out of the address field.
to_string_without_offset(r) ==
    CASE r.type = "Data" ->
            format_record(record_type(r), \h0000, r.value)
      [] r.type = "EndOfFile" ->
            format_record(record_type(r), \h0000, <<>>)
      [] r.type = "ExtendedSegmentAddress" ->
            format_record(record_type(r), \h0000, Bytes16(r.address))
      [] r.type = "StartSegmentAddress" ->
            format_record(record_type(r), \h0000, Bytes16(r.cs) \o Bytes16(r.ip))
      [] r.type = "ExtendedLinearAddress" ->
            format_record(record_type(r), \h0000, Bytes16(r.address))
      [] r.type = "StartLinearAddress" ->
            format_record(record_type(r), \h0000, Bytes16(r.hi) \o Bytes16(r.lo))

to_string(r) ==
    CASE r.type = "Data" ->
            format_record(record_type(r), r.offset, r.value)
      [] r.type = "EndOfFile" ->
            format_record(record_type(r), \h0000, <<>>)
      [] r.type = "ExtendedSegmentAddress" ->
            format_record(record_type(r), \h0000, Bytes16(r.address))
      [] r.type = "StartSegmentAddress" ->
            format_record(record_type(r), \h0000, Bytes16(r.cs) \o Bytes16(r.ip))
      [] r.type = "ExtendedLinearAddress" ->
            format_record(record_type(r), \h0000, Bytes16(r.address))
      [] r.type = "StartLinearAddress" ->
            \* (address & 0xFF000000) >> 24 and (address & 0x00FF0000) >> 16
            \* are the two bytes of hi; the other two are those of lo.
            format_record(record_type(r), \h0000, Bytes16(r.hi) \o Bytes16(r.lo))

-----------------------------------------------------------------------------
(* Inputs.                                                                 *)

\* A payload of n bytes: seed, seed + 7, seed + 14, ... (mod 256).
Fill(n, seed) == [i \in 1..n |-> (seed + 7 * (i - 1)) % 256]

Hello == <<\h48, \h65, \h6C, \h6C, \h6F>>

Addr16 == {\h0000, \h0010, \h0100, \h00FF, \h1234, \hABCD, \hFFFF}

Half16 == {\h0000, \h1234, \hFFFF}

\* Payloads of every length from 0 to 255 + MaxOver, and a few chosen ones.
Payloads ==
    {Fill(n, 1) : n \in 0..(\hFF + MaxOver)}
        \cup {Hello, <<\hFF>>, <<\h00>>, <<\h00, \hFF>>, <<\hFF, \h00>>,
              Fill(255, 3), Fill(256, 3)}

\* The receivers of a direct Record::to_string call.
AllRecords ==
    {Data(o, v) : o \in {\h0000, \h0010, \hFFFF}, v \in Payloads}
        \cup {EndOfFile}
        \cup {ExtendedSegmentAddress(a) : a \in Addr16}
        \cup {StartSegmentAddress(cs, ip) : cs \in Half16, ip \in Half16}
        \cup {ExtendedLinearAddress(a) : a \in Addr16}
        \cup {StartLinearAddress(hi, lo) : hi \in Half16, lo \in Half16}

\* The records an object is made of.
ObjRecords ==
    {Data(\h0010, Hello), Data(\h1234, Fill(255, 1)), EndOfFile,
     ExtendedSegmentAddress(\h0100), StartSegmentAddress(\h1234, \hABCD),
     ExtendedLinearAddress(\hABCD), StartLinearAddress(\h1234, \hFFFF)}
        \cup {Data(\hFFFF, Fill(n, 1)) : n \in (\hFF + 1)..(\hFF + MaxOver)}

RECURSIVE SeqsUpTo(_, _)
\* The sequences over S of length at most n.
SeqsUpTo(S, n) ==
    IF n = 0 THEN {<<>>}
    ELSE LET shorter == SeqsUpTo(S, n - 1)
         IN  shorter \cup {Append(s, x) : s \in shorter, x \in S}

Objects == SeqsUpTo(ObjRecords, MaxRecords)

-----------------------------------------------------------------------------
(* writer.rs: create_object_file_representation.                           *)

\* LastIsEndOfFile that lets the empty sequence through.
LastIsEndOfFileOrEmpty(rs) == Len(rs) = 0 \/ rs[Len(rs)] = EndOfFile

\* records.last() is Some(&Record::EndOfFile)
LastIsEndOfFile(rs) == Len(rs) > 0 /\ rs[Len(rs)] = EndOfFile

\* eof_record_count that leaves the last element, already checked, out.
eof_record_count_before_last(rs) ==
    Cardinality({i \in 1..(Len(rs) - 1) : rs[i] = EndOfFile})

\* records.iter().filter(is EndOfFile).count()
eof_record_count(rs) == Cardinality({i \in 1..Len(rs) : rs[i] = EndOfFile})

RECURSIVE JoinFrom(_, _, _)
JoinFrom(list, i, sep) ==
    IF i > Len(list) THEN <<>>
    ELSE IF i = Len(list) THEN list[i]
    ELSE list[i] \o sep \o JoinFrom(list, i + 1, sep)

\* Join that ends every line, the last included, with the separator.
JoinTerminated(list, sep) ==
    IF Len(list) = 0 THEN <<>> ELSE JoinFrom(list, 1, sep) \o sep

\* list.join(sep)
Join(list, sep) == JoinFrom(list, 1, sep)

\* CheckLast with the count of EoF records checked first.
CheckLastCountFirst ==
    /\ pc = "start"
    /\ IF eof_record_count(records) > 1
       THEN /\ pc' = "done"
            /\ result' = Err(MultipleEndOfFileRecords(eof_record_count(records)))
       ELSE IF LastIsEndOfFile(records)
       THEN /\ pc' = "count"
            /\ UNCHANGED result
       ELSE /\ pc' = "done"
            /\ result' = Err(MissingEndOfFileRecord)
    /\ UNCHANGED <<records, idx, lines, ncalls, rec, out>>

\* The if-let on records.last().
CheckLast ==
    /\ pc = "start"
    /\ IF LastIsEndOfFile(records)
       THEN /\ pc' = "count"
            /\ UNCHANGED result
       ELSE /\ pc' = "done"
            /\ result' = Err(MissingEndOfFileRecord)
    /\ UNCHANGED <<records, idx, lines, ncalls, rec, out>>

\* CountEof that lets two EoF records through: eof_record_count > 2.
CountEofAllowsTwo ==
    /\ pc = "count"
    /\ IF eof_record_count(records) > 2
       THEN /\ pc' = "done"
            /\ result' = Err(MultipleEndOfFileRecords(eof_record_count(records)))
       ELSE /\ pc' = "encode"
            /\ UNCHANGED result
    /\ UNCHANGED <<records, idx, lines, ncalls, rec, out>>

\* The count of EoF records and its check.
CountEof ==
    /\ pc = "count"
    /\ IF eof_record_count(records) > 1
       THEN /\ pc' = "done"
            /\ result' = Err(MultipleEndOfFileRecords(eof_record_count(records)))
       ELSE /\ pc' = "encode"
            /\ UNCHANGED result
    /\ UNCHANGED <<records, idx, lines, ncalls, rec, out>>

\* EncodeNext that drops a record that fails to encode and goes on.
EncodeNextSkipsFailures ==
    /\ pc = "encode"
    /\ idx < Len(records)
    /\ LET r == to_string(records[idx + 1])
       IN  /\ ncalls' = ncalls + 1
           /\ idx' = idx + 1
           /\ lines' = IF IsOk(r) THEN Append(lines, r.text) ELSE lines
           /\ UNCHANGED <<pc, result>>
    /\ UNCHANGED <<records, rec, out>>

\* One step of .map(to_string).collect::<Result<Vec<String>, _>>(): the next
\* record is encoded; the first Err ends the collection and is the result.
EncodeNext ==
    /\ pc = "encode"
    /\ idx < Len(records)
    /\ LET r == to_string(records[idx + 1])
       IN  /\ ncalls' = ncalls + 1
           /\ idx' = idx + 1
           /\ IF IsOk(r)
              THEN /\ lines' = Append(lines, r.text)
                   /\ UNCHANGED <<pc, result>>
              ELSE /\ pc' = "done"
                   /\ result' = Err(r)
                   /\ lines' = <<>>
    /\ UNCHANGED <<records, rec, out>>

\* The iterator is exhausted: .map(|list| list.join("\n")).
JoinLines ==
    /\ pc = "encode"
    /\ idx = Len(records)
    /\ pc' = "done"
    /\ result' = Ok(Join(lines, <<"\n">>))
    /\ UNCHANGED <<records, idx, lines, ncalls, rec, out>>

Init ==
    /\ records \in Objects
    /\ pc = "start"
    /\ idx = 0
    /\ lines = <<>>
    /\ result = NoResult
    /\ ncalls = 0
    /\ rec = EndOfFile
    /\ out = NoResult

Next == CheckLast \/ CountEof \/ EncodeNext \/ JoinLines

Spec == Init /\ [][Next]_vars

-----------------------------------------------------------------------------
(* A direct call of Record::to_string.                                     *)

RecordToString ==
    /\ pc = "record"
    /\ out = NoResult
    /\ out' = to_string(rec)
    /\ UNCHANGED <<records, pc, idx, lines, result, ncalls, rec>>

InitRecord ==
    /\ rec \in AllRecords
    /\ out = NoResult
    /\ records = <<>>
    /\ pc = "record"
    /\ idx = 0
    /\ lines = <<>>
    /\ result = NoResult
    /\ ncalls = 0

NextRecord == RecordToString

SpecRecord == InitRecord /\ [][NextRecord]_vars

-----------------------------------------------------------------------------
(* What the properties below are stated with.  None of it is used by the   *)
(* model above.                                                            *)

HelloLine ==
    <<":", "0", "5", "0", "0", "1", "0", "0", "0", "4", "8", "6", "5", "6",
      "C", "6", "C", "6", "F", "F", "7">>

EofLine == <<":", "0", "0", "0", "0", "0", "0", "0", "1", "F", "F">>

SegmentLine ==
    <<":", "0", "2", "0", "0", "0", "0", "0", "2", "0", "1", "0", "0", "F",
      "B">>

HelloDocument ==
    <<":", "0", "5", "0", "0", "1", "0", "0", "0", "4", "8", "6", "5", "6",
      "C", "6", "C", "6", "F", "F", "7", "\n", ":", "0", "0", "0", "0",
      "0", "0", "0", "1", "F", "F">>

\* The sequence is non-empty and ends in an EndOfFile record.
EndsWithEof(rs) == rs # <<>> /\ rs[Len(rs)].type = "EndOfFile"

\* The positions of the EndOfFile records.
EofPositions(rs) == {i \in DOMAIN rs : rs[i].type = "EndOfFile"}

NumEof(rs) == Cardinality(EofPositions(rs))

\* The positions of the Data records whose payload is longer than 255 bytes.
Oversized(rs) ==
    {i \in DOMAIN rs : rs[i].type = "Data" /\ Len(rs[i].value) > 255}

Min(S) == CHOOSE m \in S : \A x \in S : m <= x

IsError(r) ==
    \/ r = [tag |-> "MissingEndOfFileRecord"]
    \/ \E n \in 0..(MaxRecords + 1) :
          r = [tag |-> "MultipleEndOfFileRecords", n |-> n]
    \/ \E n \in 0..(256 + MaxOver) :
          r = [tag |-> "DataExceedsMaximumLength", n |-> n]

UpperHex ==
    {"0", "1", "2", "3", "4", "5", "6", "7", "8", "9",
     "A", "B", "C", "D", "E", "F"}

\* The value of an uppercase hexadecimal digit.
HexValue(c) ==
    CASE c = "0" -> 0  [] c = "1" -> 1  [] c = "2" -> 2  [] c = "3" -> 3
      [] c = "4" -> 4  [] c = "5" -> 5  [] c = "6" -> 6  [] c = "7" -> 7
      [] c = "8" -> 8  [] c = "9" -> 9  [] c = "A" -> 10 [] c = "B" -> 11
      [] c = "C" -> 12 [] c = "D" -> 13 [] c = "E" -> 14 [] c = "F" -> 15

\* The bytes a line's digits spell, pair by pair, after its first character.
LineBytes(line) ==
    [i \in 1..((Len(line) - 1) \div 2) |->
        16 * HexValue(line[2 * i]) + HexValue(line[2 * i + 1])]

Total(bytes) == SumBytes(bytes, 1, Len(bytes))

\* The big-endian bytes of a 16-bit value.
BigEndian16(v) == <<v \div 256, v % 256>>

\* The address field and the payload the layout gives a record.
AddressField(r) == IF r.type = "Data" THEN r.offset ELSE 0

Payload(r) ==
    CASE r.type = "Data"                   -> r.value
      [] r.type = "EndOfFile"              -> <<>>
      [] r.type = "ExtendedSegmentAddress" -> BigEndian16(r.address)
      [] r.type = "StartSegmentAddress"    ->
            BigEndian16(r.cs) \o BigEndian16(r.ip)
      [] r.type = "ExtendedLinearAddress"  -> BigEndian16(r.address)
      [] r.type = "StartLinearAddress"     ->
            BigEndian16(r.hi) \o BigEndian16(r.lo)

TypeCode(r) ==
    CASE r.type = "Data"                   -> 0
      [] r.type = "EndOfFile"              -> 1
      [] r.type = "ExtendedSegmentAddress" -> 2
      [] r.type = "StartSegmentAddress"    -> 3
      [] r.type = "ExtendedLinearAddress"  -> 4
      [] r.type = "StartLinearAddress"     -> 5

\* The inverse of the layout: the record a line stands for.
Decode(line) ==
    LET b       == LineBytes(line)
        address == 256 * b[2] + b[3]
        payload == SubSeq(b, 5, 4 + b[1])
        word(i) == 256 * payload[i] + payload[i + 1]
    IN  CASE b[4] = 0 -> [type |-> "Data", offset |-> address, value |-> payload]
          [] b[4] = 1 -> [type |-> "EndOfFile"]
          [] b[4] = 2 -> [type |-> "ExtendedSegmentAddress", address |-> word(1)]
          [] b[4] = 3 -> [type |-> "StartSegmentAddress",
                          cs |-> word(1), ip |-> word(3)]
          [] b[4] = 4 -> [type |-> "ExtendedLinearAddress", address |-> word(1)]
          [] b[4] = 5 -> [type |-> "StartLinearAddress",
                          hi |-> word(1), lo |-> word(3)]

\* The records a line is compared with for distinctness.
Rivals == {r \in AllRecords : r.type = "Data" => Len(r.value) <= 5}

\* The positions of the newlines of a document, and its lines.
Newlines(doc) == {i \in DOMAIN doc : doc[i] = "\n"}

\* The position of the k-th newline; 0 and Len(doc) + 1 stand for the ends.
NewlineAt(doc, k) ==
    IF k = 0 THEN 0
    ELSE IF k > Cardinality(Newlines(doc)) THEN Len(doc) + 1
    ELSE CHOOSE i \in Newlines(doc) :
            Cardinality({j \in Newlines(doc) : j < i}) = k - 1

DocLines(doc) ==
    [k \in 1..(Cardinality(Newlines(doc)) + 1) |->
        SubSeq(doc, NewlineAt(doc, k - 1) + 1, NewlineAt(doc, k) - 1)]

-----------------------------------------------------------------------------
(* The properties.                                                         *)

\* C1, as amended: when the call has returned on a sequence that holds two
\* or more EndOfFile records and whose last element is EndOfFile, wherever
\* the others stand, it returned MultipleEndOfFileRecords(count), count
\* being the number of EndOfFile records of the sequence.
C1_MultipleEofWhenLastIsEof ==
    (pc = "done" /\ NumEof(records) >= 2 /\ EndsWithEof(records))
        => result = [tag |-> "MultipleEndOfFileRecords",
                     n |-> NumEof(records)]

\* C1's case: EndOfFile first and last with another record between them.
C1_Witness ==
    /\ pc = "done"
    /\ Len(records) = 3
    /\ EofPositions(records) = {1, 3}
    /\ result = [tag |-> "MultipleEndOfFileRecords", n |-> 2]

\* C1 as stated: when the call has returned on a sequence that holds two or
\* more EndOfFile records, at any positions, also when the last element is
\* not EndOfFile, it returned MultipleEndOfFileRecords(count).
C1_Original ==
    (pc = "done" /\ NumEof(records) >= 2)
        => result = [tag |-> "MultipleEndOfFileRecords",
                     n |-> NumEof(records)]

\* C2: when the call has returned on a sequence whose last element is not
\* EndOfFile, the empty sequence included, it returned
\* MissingEndOfFileRecord, which carries no document.
C2_MissingEof ==
    (pc = "done" /\ ~EndsWithEof(records))
        => result = [tag |-> "MissingEndOfFileRecord"]

\* C2's case: the empty sequence.
C2_Witness ==
    /\ pc = "done"
    /\ records = <<>>
    /\ result = [tag |-> "MissingEndOfFileRecord"]

\* C3: Record::to_string on a Data record returns
\* DataExceedsMaximumLength(n) exactly when the payload length n exceeds
\* 255, n being that length; for lengths 0 to 255 it succeeds; and on a
\* record of another variant it never returns that error.
C3_DataExceedsExactly ==
    out # NoResult =>
        /\ (rec.type = "Data" /\ Len(rec.value) > 255)
              => out = [tag |-> "DataExceedsMaximumLength",
                        n |-> Len(rec.value)]
        /\ (rec.type = "Data" /\ Len(rec.value) <= 255) => out.tag = "Ok"
        /\ rec.type # "Data" => out.tag # "DataExceedsMaximumLength"

\* C3's case: a payload of 256 bytes, one more than fits.
C3_Witness ==
    /\ rec.type = "Data"
    /\ Len(rec.value) = 256
    /\ out = [tag |-> "DataExceedsMaximumLength", n |-> 256]

\* C4: the bytes of every line Record::to_string returns sum to 0 modulo
\* 256, and the last byte is (0x100 - (sum of the bytes before it mod
\* 0x100)) mod 0x100, also when those sum to a multiple of 256.
C4_ChecksumZeroSum ==
    out.tag = "Ok" =>
        LET b == LineBytes(out.text)
            n == Len(b)
        IN  /\ Total(b) % 256 = 0
            /\ b[n] = (256 - (Total(SubSeq(b, 1, n - 1)) % 256)) % 256

\* C4's case: the bytes before the checksum sum to 256, the checksum is 0.
C4_Witness ==
    /\ rec = [type |-> "Data", offset |-> 0, value |-> <<255>>]
    /\ out.tag = "Ok"
    /\ LineBytes(out.text) = <<1, 0, 0, 0, 255, 0>>

\* C5: for a record with payload length L <= 255, Record::to_string returns
\* ':' followed by 2 * (5 + L) uppercase hexadecimal digits that spell, pair
\* by pair: L, the address field big-endian (the offset of a Data record, 0
\* for the others), the type code, the payload bytes in order, and the
\* checksum; with the three lines the specification gives as examples.
C5_LineLayout ==
    (out # NoResult /\ Len(Payload(rec)) <= 255) =>
        LET line == out.text
            L    == Len(Payload(rec))
            b    == LineBytes(line)
        IN  /\ out.tag = "Ok"
            /\ Len(line) = 1 + 2 * (5 + L)
            /\ line[1] = ":"
            /\ \A i \in 2..Len(line) : line[i] \in UpperHex
            /\ SubSeq(b, 1, 4 + L) =
                  <<L>> \o BigEndian16(AddressField(rec))
                        \o <<TypeCode(rec)>> \o Payload(rec)
            /\ b[5 + L] = (256 - (Total(SubSeq(b, 1, 4 + L)) % 256)) % 256
            /\ rec = [type |-> "Data", offset |-> 16,
                      value |-> <<72, 101, 108, 108, 111>>]
                  => line = HelloLine
            /\ rec = [type |-> "EndOfFile"] => line = EofLine
            /\ rec = [type |-> "ExtendedSegmentAddress", address |-> 256]
                  => line = SegmentLine

\* C5's case: the Data record of the specification's first example.
C5_Witness ==
    /\ rec = [type |-> "Data", offset |-> 16,
              value |-> <<72, 101, 108, 108, 111>>]
    /\ out = [tag |-> "Ok", text |-> HelloLine]

\* C6: a document returned for n records has n lines, the i-th being
\* Record::to_string of the i-th record, with one newline between
\* consecutive lines, none at either end, and ':00000001FF' as last line.
C6_DocumentIsJoinedLines ==
    (pc = "done" /\ result.tag = "Ok") =>
        LET doc == result.text
            n   == Len(records)
        IN  /\ n >= 1
            /\ DocLines(doc) = [i \in 1..n |-> to_string(records[i]).text]
            /\ Cardinality(Newlines(doc)) = n - 1
            /\ Len(doc) = (n - 1) +
                  Total([i \in 1..n |-> Len(to_string(records[i]).text)])
            /\ doc[1] # "\n"
            /\ doc[Len(doc)] # "\n"
            /\ DocLines(doc)[n] = EofLine

\* C6's case: the object of the specification's fourth example.
C6_Witness ==
    /\ pc = "done"
    /\ records = <<[type |-> "Data", offset |-> 16,
                    value |-> <<72, 101, 108, 108, 111>>],
                   [type |-> "EndOfFile"]>>
    /\ result = [tag |-> "Ok", text |-> HelloDocument]

\* C7: both structural checks are decided before any record is encoded, and
\* in a fixed order: a sequence whose last element is not EndOfFile gives
\* MissingEndOfFileRecord; otherwise one with more than one EndOfFile gives
\* MultipleEndOfFileRecords(count); DataExceedsMaximumLength is returned
\* only when both checks pass, and no record is encoded unless they do.
C7_ErrorPrecedence ==
    /\ (pc = "done" /\ ~EndsWithEof(records))
          => result = [tag |-> "MissingEndOfFileRecord"]
    /\ (pc = "done" /\ EndsWithEof(records) /\ NumEof(records) > 1)
          => result = [tag |-> "MultipleEndOfFileRecords",
                       n |-> NumEof(records)]
    /\ result.tag = "DataExceedsMaximumLength"
          => (EndsWithEof(records) /\ NumEof(records) = 1)
    /\ ncalls > 0 => (EndsWithEof(records) /\ NumEof(records) = 1)
    /\ result.tag \in {"MissingEndOfFileRecord", "MultipleEndOfFileRecords"}
          => (ncalls = 0 /\ lines = <<>>)

\* C7's case: a sequence that breaks all three rules at once.
C7_Witness ==
    /\ pc = "done"
    /\ Oversized(records) # {}
    /\ NumEof(records) > 1
    /\ ~EndsWithEof(records)
    /\ result = [tag |-> "MissingEndOfFileRecord"]
    /\ ncalls = 0

\* C8: on a sequence with one EndOfFile, placed last, and some Data record
\* longer than 255 bytes, no record after the first such record is ever
\* encoded, and the call returns DataExceedsMaximumLength(n), n being the
\* payload length of that first record, and no document.
C8_FirstOversizedWins ==
    (EndsWithEof(records) /\ NumEof(records) = 1 /\ Oversized(records) # {})
        => LET first == Min(Oversized(records))
           IN  /\ ncalls <= first
               /\ idx <= first
               /\ pc = "done" =>
                     /\ result = [tag |-> "DataExceedsMaximumLength",
                                  n |-> Len(records[first].value)]
                     /\ ncalls = first
                     /\ lines = <<>>

\* C8's case: two oversized records of different lengths, then EndOfFile.
C8_Witness ==
    /\ pc = "done"
    /\ Len(records) = 3
    /\ Oversized(records) = {1, 2}
    /\ Len(records[1].value) = 257
    /\ Len(records[2].value) = 256
    /\ result = [tag |-> "DataExceedsMaximumLength", n |-> 257]
    /\ ncalls = 1

\* C9: the line Record::to_string returns decodes, by the inverse of the
\* layout, to the record itself, and no other record encodes to that line.
C9_RoundTrip ==
    (out # NoResult /\ Len(Payload(rec)) <= 255) =>
        /\ out.tag = "Ok"
        /\ Decode(out.text) = rec
        /\ \A r \in Rivals : r # rec => to_string(r) # out

\* C9's case: a segment address, which a linear address of the same value
\* must not be confused with.
C9_Witness ==
    /\ rec = [type |-> "ExtendedSegmentAddress", address |-> 43981]
    /\ out.tag = "Ok"
    /\ [type |-> "ExtendedLinearAddress", address |-> 43981] \in Rivals
    /\ Decode(out.text) = rec

\* C10: the call returns a document if and only if the sequence is
\* non-empty, ends in EndOfFile, holds exactly one EndOfFile and no Data
\* record longer than 255 bytes; otherwise it returns one of the three
\* errors and no text; and a returned document has exactly one End-Of-File
\* line, its last.
C10_OkIffWellFormed ==
    pc = "done" =>
        /\ result.tag = "Ok" <=>
              /\ records # <<>>
              /\ EndsWithEof(records)
              /\ NumEof(records) = 1
              /\ Oversized(records) = {}
        /\ result.tag # "Ok" => IsError(result)
        /\ result.tag = "Ok" =>
              LET ls == DocLines(result.text)
              IN  {k \in DOMAIN ls : ls[k] = EofLine} = {Len(ls)}

\* C10's case: a document of three lines, one of them a 255-byte Data line.
C10_Witness ==
    /\ pc = "done"
    /\ result.tag = "Ok"
    /\ Len(records) = 3
    /\ \E i \in DOMAIN records :
          records[i].type = "Data" /\ Len(records[i].value) = 255

====
